---- MODULE Spec2Model ----
(***************************************************************************)
(* Model of the physical memory range-set allocator                        *)
(* (src/etc/range_set/src/lib.rs) and of its front-end, the bootloader's   *)
(* global allocator and init() (src/bootloader/src/mm.rs).                 *)
(*                                                                         *)
(* A RangeSet value is the sequence of its live entries, that is           *)
(* ranges[..in_use] in storage order; in_use is the length of the          *)
(* sequence.  Slots at and above in_use are never read by the code before  *)
(* being overwritten, so they are not part of the value.                   *)
(* Option<T> is a sequence of length 0 (None) or 1 (Some).                 *)
(* The integer types are scaled down: u64 is 0..U64_MAX and usize (the     *)
(* bootloader is built for i586, a 32-bit target) is 0..USIZE_MAX.         *)
(***************************************************************************)
EXTENDS Integers, Sequences, FiniteSets, TLC

\* Largest value of the (scaled) u64 address type.
U64_MAX == 5

\* Largest value of the (scaled) usize type of the 32-bit target.
USIZE_MAX == 4

\* Number of slots of the (scaled) ranges array, [Range; 256] in the code.
CAPACITY == 2

\* Largest allocation size requested.
MaxSize == 3

\* Largest number of ranges of a region hint.
MaxHintLen == 2

\* Last address of the (scaled) low region init() always removes,
\* 1024 * 1024 - 1 in the code.
LOW_MEM_END == 0

VARIABLES
    ranges,   \* the live entries of the RangeSet, in storage order
    status,   \* "ok", or "panic" once an assert/abort has fired
    pc,       \* caller's position: "idle" or "done" (a call has returned)
    last,     \* the call that has just run: operation, arguments, result,
              \* and the entries before it
    mem,      \* BOOT_KERN.free_memory: the Option<RangeSet> inside the lock
    lock,     \* holder of the free_memory spinlock, or "free"
    ctx,      \* per execution context: position in its front-end call,
              \* the call's arguments and result
    boot,     \* locals of init(): free_memory and the E820 map it reads
    live      \* the blocks a caller of alloc holds, in the order granted

vars == <<ranges, status, pc, last, mem, lock, ctx, boot, live>>

\* The variables of the physical allocator front-end
front == <<mem, lock, ctx, boot>>

\* The variables of the caller of a RangeSet of its own
back == <<ranges, pc, last>>

------------------------------------------------------------------------------
(* Integer helpers of the code *)

U64 == 0..U64_MAX

min(a, b) == IF a <= b THEN a ELSE b

max(a, b) == IF a >= b THEN a ELSE b

saturating_add(a, b) == min(a + b, U64_MAX)

saturating_sub(a, b) == max(a - b, 0)

\* u64 wraps at 2^64, a multiple of every alignment.  The scaled type wraps
\* at the least multiple of the largest alignment (4) above U64_MAX, so that
\* rounding up to an alignment wraps exactly when the rounded value is not
\* representable.
U64_WRAP == 4 * ((U64_MAX \div 4) + 1)

wrapping_add(a, b) == (a + b) % U64_WRAP

\* Option<u64>: None on overflow
checked_add(a, b) == IF a + b > U64_MAX THEN <<>> ELSE <<a + b>>

RECURSIVE count_ones(_)
count_ones(x) == IF x = 0 THEN 0 ELSE (x % 2) + count_ones(x \div 2)

\* x & align_mask, for align_mask = align - 1 with align a power of two
and_mask(x, align_mask) == x % (align_mask + 1)

\* x & !align_mask, for align_mask = align - 1 with align a power of two
and_not_mask(x, align_mask) == x - (x % (align_mask + 1))

\* `x as usize`
as_usize(x) == x % (USIZE_MAX + 1)

------------------------------------------------------------------------------
(* Range *)

Range(s, e) == [start |-> s, end |-> e]

contains_StartOnly(self, other) == self.start <= other.start

\* Range::contains
contains(self, other) == self.start <= other.start /\ self.end >= other.end

\* Range::overlaps: Option<Range>
overlaps(self, other) ==
    IF self.start <= other.end /\ other.start <= self.end
    THEN <<Range(max(self.start, other.start), min(self.end, other.end))>>
    ELSE <<>>

------------------------------------------------------------------------------
(* RangeSet *)

\* RangeSet::new
new == <<>>

\* RangeSet::entries
entries(rs) == rs

in_use(rs) == Len(rs)

\* RangeSet::delete (idx is 1-based here): the deleted entry is swapped to the
\* end, past the live entries, and in_use is decremented.
delete(rs, idx) == SubSeq(rs, 1, idx - 1) \o SubSeq(rs, idx + 1, Len(rs))

\* delete: ranges.swap(i, i + 1), indices 0-based as in the code
swap(rs, i, j) == [rs EXCEPT ![i + 1] = rs[j + 1], ![j + 1] = rs[i + 1]]

\* delete: the loop of lines 88-90, from i up to in_use - 2
RECURSIVE delete_swaps(_, _)
delete_swaps(rs, i) ==
    IF i >= Len(rs) - 1 THEN rs ELSE delete_swaps(swap(rs, i, i + 1), i + 1)

delete_call_Unasserted(rs, idx) ==
    [rs |-> SubSeq(rs, 1, Len(rs) - 1), panic |-> FALSE]

\* RangeSet::delete as one call, idx 0-based as in the code: the assert of
\* line 85, the swaps that carry the entry to the end, and the decrement of
\* in_use that drops it from the live entries.
delete_call(rs, idx) ==
    IF ~(idx < Len(rs))
    THEN [rs |-> rs, panic |-> TRUE]
    ELSE [rs |-> SubSeq(delete_swaps(rs, idx), 1, Len(rs) - 1),
          panic |-> FALSE]

touching_OverlapOnly(entry, range) == overlaps(entry, range) # <<>>

\* insert: the overlapping-or-touching test of lines 115-119
touching(entry, range) ==
    overlaps(Range(entry.start, saturating_add(entry.end, 1)),
             Range(range.start, saturating_add(range.end, 1))) # <<>>

Merge_DropsRangeEnd(entry, range) ==
    Range(min(entry.start, range.start), entry.end)

\* insert: the merge of lines 125-126
Merge(entry, range) ==
    Range(min(entry.start, range.start), max(entry.end, range.end))

insert_merges_NoScan(rs, range) == [rs |-> rs, range |-> range]

\* insert: the 'merges loop.  Each pass scans from the start; the first entry
\* that overlaps or touches is merged into range and deleted, and the scan
\* restarts.  Yields the remaining entries and the merged range.
RECURSIVE insert_merges(_, _)
insert_merges(rs, range) ==
    LET hit == {idx \in 1..Len(rs) : touching(rs[idx], range)}
    IN  IF hit = {}
        THEN [rs |-> rs, range |-> range]
        ELSE LET idx == CHOOSE i \in hit : \A k \in hit : i <= k
             IN  insert_merges(delete(rs, idx), Merge(rs[idx], range))

insert_Prepends(rs, range) ==
    IF ~(range.start <= range.end)
    THEN [rs |-> rs, panic |-> TRUE]
    ELSE LET m == insert_merges(rs, range)
         IN  IF ~(Len(m.rs) < CAPACITY)
             THEN [rs |-> m.rs, panic |-> TRUE]
             ELSE [rs |-> <<m.range>> \o m.rs, panic |-> FALSE]

insert_CapacityFirst(rs, range) ==
    IF ~(range.start <= range.end)
    THEN [rs |-> rs, panic |-> TRUE]
    ELSE IF ~(Len(rs) < CAPACITY)
    THEN [rs |-> rs, panic |-> TRUE]
    ELSE LET m == insert_merges(rs, range)
         IN  [rs |-> Append(m.rs, m.range), panic |-> FALSE]

insert_NoCapacityAssert(rs, range) ==
    IF ~(range.start <= range.end)
    THEN [rs |-> rs, panic |-> TRUE]
    ELSE LET m == insert_merges(rs, range)
         IN  [rs |-> Append(m.rs, m.range), panic |-> FALSE]

\* RangeSet::insert.  panic is TRUE when an assert fires; rs is then the
\* state the set was left in.
insert(rs, range) ==
    IF ~(range.start <= range.end)
    THEN [rs |-> rs, panic |-> TRUE]
    ELSE LET m == insert_merges(rs, range)
         IN  IF ~(Len(m.rs) < CAPACITY)
             THEN [rs |-> m.rs, panic |-> TRUE]
             ELSE [rs |-> Append(m.rs, m.range), panic |-> FALSE]

\* RangeSet::remove, the 'subtractions loop from entry idx on.  A delete or a
\* split restarts the scan; a truncation goes on with the next entry.
RECURSIVE remove_scan(_, _, _)

remove_scan_SplitUnchecked(rs, range, idx) ==
    IF idx > Len(rs)
    THEN [rs |-> rs, panic |-> FALSE]
    ELSE LET entry == rs[idx]
         IN  IF overlaps(entry, range) = <<>>
             THEN remove_scan(rs, range, idx + 1)
             ELSE IF contains(range, entry)
             THEN remove_scan(delete(rs, idx), range, 1)
             ELSE IF range.start <= entry.start
             THEN remove_scan(
                      [rs EXCEPT ![idx].start = saturating_add(range.end, 1)],
                      range, idx + 1)
             ELSE IF range.end >= entry.end
             THEN remove_scan(
                      [rs EXCEPT ![idx].end = saturating_sub(range.start, 1)],
                      range, idx + 1)
             ELSE remove_scan(
                      Append([rs EXCEPT ![idx].start =
                                  saturating_add(range.end, 1)],
                             Range(entry.start,
                                   saturating_sub(range.start, 1))),
                      range, 1)

remove_scan(rs, range, idx) ==
    IF idx > Len(rs)
    THEN [rs |-> rs, panic |-> FALSE]
    ELSE LET entry == rs[idx]
         IN  IF overlaps(entry, range) = <<>>
             THEN remove_scan(rs, range, idx + 1)
             ELSE IF contains(range, entry)
             THEN remove_scan(delete(rs, idx), range, 1)
             ELSE IF range.start <= entry.start
             THEN remove_scan(
                      [rs EXCEPT ![idx].start = saturating_add(range.end, 1)],
                      range, idx + 1)
             ELSE IF range.end >= entry.end
             THEN remove_scan(
                      [rs EXCEPT ![idx].end = saturating_sub(range.start, 1)],
                      range, idx + 1)
             ELSE LET second == [rs EXCEPT ![idx].start =
                                     saturating_add(range.end, 1)]
                  IN  IF ~(Len(rs) < CAPACITY)
                      THEN [rs |-> second, panic |-> TRUE]
                      ELSE remove_scan(
                               Append(second,
                                      Range(entry.start,
                                            saturating_sub(range.start, 1))),
                               range, 1)

remove_NoValidityAssert(rs, range) == remove_scan(rs, range, 1)

\* RangeSet::remove
remove(rs, range) ==
    IF ~(range.start <= range.end)
    THEN [rs |-> rs, panic |-> TRUE]
    ELSE remove_scan(rs, range, 1)

------------------------------------------------------------------------------
(* RangeSet::allocate *)

None == <<>>

Some(x) == <<x>>

Allocation(s, e, p) == [start |-> s, end |-> e, ptr |-> p]

padding_Unmasked(start, align) == and_mask(start, align - 1)

\* line 233: (align - (entry.start & align_mask)) & align_mask
padding(start, align) ==
    and_mask(align - and_mask(start, align - 1), align - 1)

alloc_end_Wrapping(start, size, pad) ==
    Some((start + (size - 1) + pad) % (U64_MAX + 1))

\* line 237: start.checked_add(size - 1)?.checked_add(padding)?
alloc_end(start, size, pad) ==
    LET a == checked_add(start, size - 1)
    IN  IF a = None THEN None ELSE checked_add(a[1], pad)

\* lines 253-288: the scan of the preferred regions for one entry, from
\* region j on.  "break" carries the allocation found, "continue" skips the
\* entry ('continue 'search'), "nomatch" falls through to the best-size
\* update of lines 291-297.
RECURSIVE region_scan(_, _, _, _, _)
region_scan(entry, size, align, regions, j) ==
    IF j > Len(regions)
    THEN [kind |-> "nomatch", allocation |-> None]
    ELSE LET ov == overlaps(entry, regions[j])
         IN  IF ov = None
             THEN region_scan(entry, size, align, regions, j + 1)
             ELSE LET overlap       == ov[1]
                      align_mask    == align - 1
                      align_overlap ==
                          and_not_mask(wrapping_add(overlap.start, align_mask),
                                       align_mask)
                  IN  IF /\ align_overlap >= overlap.start
                         /\ align_overlap <= overlap.end
                         /\ (overlap.end - align_overlap) >= (size - 1)
                      THEN LET overlap_alc_end == align_overlap + (size - 1)
                           IN  IF \/ align_overlap > USIZE_MAX
                                  \/ overlap_alc_end > USIZE_MAX
                               THEN [kind |-> "continue", allocation |-> None]
                               ELSE [kind |-> "break",
                                     allocation |->
                                         Some(Allocation(align_overlap,
                                                         overlap_alc_end,
                                                         as_usize(align_overlap)))]
                      ELSE region_scan(entry, size, align, regions, j + 1)

is_better_OrEqual(allocation, start, end) ==
    allocation = None \/ (allocation[1].end - allocation[1].start) >= end - start

is_better_Always(allocation, start, end) == TRUE

\* lines 292-294: the "best" allocation size to date
is_better(allocation, start, end) ==
    allocation = None \/ (allocation[1].end - allocation[1].start) > end - start

\* lines 231-298: the 'search loop from entry idx on, with the best
\* allocation so far.  early is TRUE when a `?` returned None from allocate.
RECURSIVE search(_, _, _, _, _, _)
search(rs, size, align, regions, idx, allocation) ==
    IF idx > Len(rs)
    THEN [early |-> FALSE, allocation |-> allocation]
    ELSE LET entry == rs[idx]
             pad   == padding(entry.start, align)
             start == entry.start
             e     == alloc_end(start, size, pad)
         IN  IF e = None
             THEN [early |-> TRUE, allocation |-> None]
             ELSE LET end == e[1]
                  IN  IF start > USIZE_MAX \/ end > USIZE_MAX
                      THEN search(rs, size, align, regions, idx + 1, allocation)
                      ELSE IF end > entry.end
                      THEN search(rs, size, align, regions, idx + 1, allocation)
                      ELSE LET h == IF regions = None
                                    THEN [kind |-> "nomatch", allocation |-> None]
                                    ELSE region_scan(entry, size, align,
                                                     entries(regions[1]), 1)
                           IN  IF h.kind = "break"
                               THEN [early |-> FALSE,
                                     allocation |-> h.allocation]
                               ELSE IF h.kind = "continue"
                               THEN search(rs, size, align, regions, idx + 1,
                                           allocation)
                               ELSE IF is_better(allocation, start, end)
                               THEN search(rs, size, align, regions, idx + 1,
                                           Some(Allocation(start, end,
                                                    as_usize(start + pad))))
                               ELSE search(rs, size, align, regions, idx + 1,
                                           allocation)

commit_RemovesBlockOnly(rs, allocation) ==
    IF allocation = None
    THEN [rs |-> rs, ret |-> None, panic |-> FALSE]
    ELSE LET r == remove(rs, Range(allocation[1].ptr, allocation[1].end))
         IN  [rs |-> r.rs, ret |-> Some(allocation[1].ptr), panic |-> r.panic]

commit_KeepsSpan(rs, allocation) ==
    IF allocation = None
    THEN [rs |-> rs, ret |-> None, panic |-> FALSE]
    ELSE [rs |-> rs, ret |-> Some(allocation[1].ptr), panic |-> FALSE]

commit_NullIsFailure(rs, allocation) ==
    IF allocation = None
    THEN [rs |-> rs, ret |-> None, panic |-> FALSE]
    ELSE LET r == remove(rs, Range(allocation[1].start, allocation[1].end))
         IN  [rs |-> r.rs,
              ret |-> IF allocation[1].ptr = 0 THEN None
                      ELSE Some(allocation[1].ptr),
              panic |-> r.panic]

\* lines 300-306: remove the chosen span from the set and return the pointer
commit(rs, allocation) ==
    IF allocation = None
    THEN [rs |-> rs, ret |-> None, panic |-> FALSE]
    ELSE LET r == remove(rs, Range(allocation[1].start, allocation[1].end))
         IN  [rs |-> r.rs, ret |-> Some(allocation[1].ptr), panic |-> r.panic]

allocate_AssertsSize(rs, size, align, regions) ==
    IF size = 0
    THEN [rs |-> rs, ret |-> None, panic |-> TRUE]
    ELSE IF count_ones(align) # 1
    THEN [rs |-> rs, ret |-> None, panic |-> FALSE]
    ELSE LET s == search(rs, size, align, regions, 1, None)
         IN  IF s.early
             THEN [rs |-> rs, ret |-> None, panic |-> FALSE]
             ELSE commit(rs, s.allocation)

allocate_AssertsAlign(rs, size, align, regions) ==
    IF size = 0
    THEN [rs |-> rs, ret |-> None, panic |-> FALSE]
    ELSE IF count_ones(align) # 1
    THEN [rs |-> rs, ret |-> None, panic |-> TRUE]
    ELSE LET s == search(rs, size, align, regions, 1, None)
         IN  IF s.early
             THEN [rs |-> rs, ret |-> None, panic |-> FALSE]
             ELSE commit(rs, s.allocation)

\* RangeSet::allocate.  regions is Option<RangeSet>; ret is Option<usize>.
allocate(rs, size, align, regions) ==
    IF size = 0
    THEN [rs |-> rs, ret |-> None, panic |-> FALSE]
    ELSE IF count_ones(align) # 1
    THEN [rs |-> rs, ret |-> None, panic |-> FALSE]
    ELSE LET s == search(rs, size, align, regions, 1, None)
         IN  IF s.early
             THEN [rs |-> rs, ret |-> None, panic |-> FALSE]
             ELSE commit(rs, s.allocation)

------------------------------------------------------------------------------
(* GlobalAllocator (src/bootloader/src/mm.rs): the bodies of alloc and     *)
(* dealloc on the locked Option<RangeSet>                                  *)

\* Option<usize>: None on underflow
checked_sub(a, b) == IF a < b THEN None ELSE Some(a - b)

\* Option::unwrap_or
unwrap_or(o, d) == IF o = None THEN d ELSE o[1]

\* GlobalAllocator::alloc on the locked Option<RangeSet> m
alloc(m, size, align) ==
    IF m = None
    THEN [mem |-> m, got |-> None, ret |-> unwrap_or(None, 0),
          panic |-> FALSE]
    ELSE LET r == allocate(m[1], size, align, None)
         IN  [mem |-> Some(r.rs), got |-> r.ret,
              ret |-> unwrap_or(r.ret, 0), panic |-> r.panic]

dealloc_EndPastBlock(m, ptr, size) ==
    IF m = None
    THEN [mem |-> m, panic |-> TRUE]
    ELSE LET end == checked_add(ptr, size)
         IN  IF end = None
             THEN [mem |-> m, panic |-> TRUE]
             ELSE LET r == insert(m[1], Range(ptr, end[1]))
                  IN  [mem |-> Some(r.rs), panic |-> r.panic]

\* GlobalAllocator::dealloc on the locked Option<RangeSet> m: the closure
\* yields None (and expect() panics) when size - 1 or ptr + (size - 1)
\* is not representable, or when m is None.
dealloc(m, ptr, size) ==
    IF m = None
    THEN [mem |-> m, panic |-> TRUE]
    ELSE LET len == checked_sub(size, 1)
             end == IF len = None THEN None ELSE checked_add(ptr, len[1])
         IN  IF end = None
             THEN [mem |-> m, panic |-> TRUE]
             ELSE LET r == insert(m[1], Range(ptr, end[1]))
                  IN  [mem |-> Some(r.rs), panic |-> r.panic]

------------------------------------------------------------------------------
(* The state machine: a caller issues insert, remove and allocate calls on   *)
(* one RangeSet, starting from RangeSet::new().  A call runs to completion   *)
(* in one step; `last` keeps its arguments, result and the entries before    *)
(* it until the caller goes on.  A panic halts the system.                   *)

\* Ranges a caller can pass (the fields are public: start > end included)
AnyRange == {Range(s, e) : s \in U64, e \in U64}

ValidRange == {r \in AnyRange : r.start <= r.end}

\* Alignments a caller can pass: powers of two and others
Aligns == {0, 1, 2, 3, 4}

Sizes == 0..MaxSize

\* Region hints: range sets as insert/remove build them (valid, disjoint,
\* non-touching entries, in any storage order)
HintSets ==
    {h \in UNION {[1..n -> ValidRange] : n \in 0..MaxHintLen} :
        \A i, j \in 1..Len(h) :
            i # j => (h[i].end + 1 < h[j].start \/ h[j].end + 1 < h[i].start)}

Regions == {None} \cup {Some(h) : h \in HintSets}

\* Arguments of allocate.  A zero size or an alignment that is no power of
\* two returns before the regions are looked at (lines 217-224), so these are
\* drawn with no regions only.
AllocArgs ==
    {[size |-> size, align |-> align, regions |-> regions] :
        size \in Sizes, align \in Aligns, regions \in Regions}
    \ {a \in [size : Sizes, align : Aligns, regions : Regions] :
           (a.size = 0 \/ count_ones(a.align) # 1) /\ a.regions # None}

NoRange == Range(0, 0)

NoCall ==
    [op |-> "none", range |-> NoRange, size |-> 0, align |-> 0,
     regions |-> None, ret |-> None, prev |-> <<>>, mid |-> <<>>,
     cur |-> NoRange, restarts |-> 0, idx |-> 0]

\* A context outside any front-end call
Idle == [pc |-> "idle", op |-> "none", a |-> 0, b |-> 0, ret |-> 0,
         got |-> None, seen |-> None]

NoBoot == [free_memory |-> new, e820 |-> <<>>]

\* BootKernCommon::new(): free_memory is SpinLock::new(None).  The boot
\* context is at the start of entry(), before mm::init().
Init ==
    /\ ranges = new
    /\ status = "ok"
    /\ pc = "idle"
    /\ last = NoCall
    /\ mem = None
    /\ lock = "free"
    /\ ctx = [c \in {"boot", "kern"} |->
                  IF c = "boot" THEN [Idle EXCEPT !.pc = "start"] ELSE Idle]
    /\ boot = NoBoot
    /\ live = <<>>

Insert(range) ==
    /\ LET r == insert(ranges, range)
       IN  /\ ranges' = r.rs
           /\ status' = IF r.panic THEN "panic" ELSE "ok"
    /\ pc' = "done"
    /\ last' = [NoCall EXCEPT !.op = "insert", !.range = range,
                              !.prev = ranges]
    /\ UNCHANGED <<front, live>>

Remove(range) ==
    /\ LET r == remove(ranges, range)
       IN  /\ ranges' = r.rs
           /\ status' = IF r.panic THEN "panic" ELSE "ok"
    /\ pc' = "done"
    /\ last' = [NoCall EXCEPT !.op = "remove", !.range = range,
                              !.prev = ranges]
    /\ UNCHANGED <<front, live>>

Allocate(size, align, regions) ==
    /\ LET r == allocate(ranges, size, align, regions)
       IN  /\ ranges' = r.rs
           /\ status' = IF r.panic THEN "panic" ELSE "ok"
           /\ last' = [NoCall EXCEPT !.op = "allocate", !.size = size,
                                     !.align = align, !.regions = regions,
                                     !.ret = r.ret, !.prev = ranges]
    /\ pc' = "done"
    /\ UNCHANGED <<front, live>>

\* The caller follows an insert that returned with a remove of the same
\* range.  last.prev stays the set before the insert; last.mid is the set
\* between the two calls.
RemoveInserted ==
    /\ pc = "done" /\ status = "ok" /\ last.op = "insert"
    /\ LET r == remove(ranges, last.range)
       IN  /\ ranges' = r.rs
           /\ status' = IF r.panic THEN "panic" ELSE "ok"
    /\ pc' = "removed"
    /\ last' = [last EXCEPT !.mid = ranges]
    /\ UNCHANGED <<front, live>>

\* The caller follows an insert that returned with an insert of the same
\* range.
InsertAgain ==
    /\ pc = "done" /\ status = "ok" /\ last.op = "insert"
    /\ LET r == insert(ranges, last.range)
       IN  /\ ranges' = r.rs
           /\ status' = IF r.panic THEN "panic" ELSE "ok"
    /\ pc' = "again"
    /\ last' = [last EXCEPT !.mid = ranges]
    /\ UNCHANGED <<front, live>>

\* The caller follows an allocate(size, align, None) that returned an
\* address with the front-end's dealloc of that address and size.
FreeAllocated ==
    /\ pc = "done" /\ status = "ok" /\ last.op = "allocate"
    /\ last.regions = None /\ last.ret # None
    /\ LET r == dealloc(Some(ranges), last.ret[1], last.size)
       IN  /\ ranges' = r.mem[1]
           /\ status' = IF r.panic THEN "panic" ELSE "ok"
    /\ pc' = "freed"
    /\ last' = [last EXCEPT !.mid = ranges]
    /\ UNCHANGED <<front, live>>

\* The caller has taken the result and is ready for its next call.
Return ==
    /\ pc # "idle" /\ status = "ok"
    /\ pc' = "idle"
    /\ last' = NoCall
    /\ UNCHANGED <<ranges, status>>
    /\ UNCHANGED <<front, live>>

\* The caller is between calls and the system has not halted.
Ready == pc = "idle" /\ status = "ok"

Next ==
    \/ Ready /\ \E range \in AnyRange : Insert(range)
    \/ Ready /\ \E range \in AnyRange : Remove(range)
    \/ Ready /\ \E a \in AllocArgs : Allocate(a.size, a.align, a.regions)
    \/ RemoveInserted
    \/ InsertAgain
    \/ FreeAllocated
    \/ Return

Spec == Init /\ [][Next]_vars

------------------------------------------------------------------------------
(* The physical memory manager of the bootloader                           *)
(* (src/bootloader/src/mm.rs) over BOOT_KERN.free_memory                   *)
(* (src/etc/boot_kern_common/src/lib.rs)                                   *)

\* The execution contexts sharing BOOT_KERN: the bootloader, which runs
\* init() first, and one more user of the shared allocator.
Contexts == {"boot", "kern"}

\* The SpinLock around free_memory.  Its crate is not part of the sources:
\* lock() returns only while nobody holds the lock, and the guard releases
\* the lock when it is dropped.
Unlocked == "free"

CanLock(l) == l = Unlocked

\* One pass of init() over the descriptors E820 reports, from the k-th on.
\* unwrap() panics when base + (size - 1) overflows.
RECURSIVE e820_loop(_, _, _, _)
e820_loop(free_memory, e820, add, k) ==
    IF k > Len(e820)
    THEN [rs |-> free_memory, panic |-> FALSE]
    ELSE LET descriptor == e820[k]
             end == checked_add(descriptor.base, descriptor.size - 1)
         IN  IF add /\ descriptor.typ = 1 /\ descriptor.size > 0
             THEN IF end = None
                  THEN [rs |-> free_memory, panic |-> TRUE]
                  ELSE LET r == insert(free_memory,
                                       Range(descriptor.base, end[1]))
                       IN  IF r.panic
                           THEN r
                           ELSE e820_loop(r.rs, e820, add, k + 1)
             ELSE IF ~add /\ descriptor.typ # 1 /\ descriptor.size > 0
             THEN IF end = None
                  THEN [rs |-> free_memory, panic |-> TRUE]
                  ELSE LET r == remove(free_memory,
                                       Range(descriptor.base, end[1]))
                       IN  IF r.panic
                           THEN r
                           ELSE e820_loop(r.rs, e820, add, k + 1)
             ELSE e820_loop(free_memory, e820, add, k + 1)

init_pass_KeepsLowMemory(free_memory, e820, add) ==
    e820_loop(free_memory, e820, add, 1)

\* One iteration of `for add in [true, false]`: the descriptor loop, then
\* the removal of the low region.  The caller publishes the result.
init_pass(free_memory, e820, add) ==
    LET l == e820_loop(free_memory, e820, add, 1)
    IN  IF l.panic THEN l ELSE remove(l.rs, Range(0, LOW_MEM_END))

\* Descriptor types: 1 is usable memory, anything else is not.
Types == {1, 2, 3}

Descriptors == [base : U64, size : 0..MaxSize, typ : Types]

\* The memory maps E820 reports: the loop reads at least one descriptor.
E820Maps ==
    {<<d>> : d \in Descriptors} \cup
    {<<d1, d2>> : d1 \in Descriptors, d2 \in Descriptors}

\* Layouts of alloc: Layout guarantees a power-of-two alignment, and the
\* GlobalAlloc contract a non-zero size.
Layouts == [size : {1, 3}, align : {1, 2}]

\* Blocks handed to dealloc
Blocks == [ptr : 0..USIZE_MAX, size : {0, 1, 3}]

InitLock_WithoutLock ==
    /\ ctx["boot"].pc = "start"
    /\ ctx' = [ctx EXCEPT !["boot"].pc = "pass1"]
    /\ boot' = [free_memory |-> new, e820 |-> <<>>]
    /\ UNCHANGED <<mem, lock, status>>
    /\ UNCHANGED <<back, live>>

\* init(): BOOT_KERN.free_memory_ref().lock(), then RangeSet::new()
InitLock ==
    /\ ctx["boot"].pc = "start"
    /\ CanLock(lock)
    /\ lock' = "boot"
    /\ ctx' = [ctx EXCEPT !["boot"].pc = "pass1"]
    /\ boot' = [free_memory |-> new, e820 |-> <<>>]
    /\ UNCHANGED <<mem, status>>
    /\ UNCHANGED <<back, live>>

AtPass1 == ctx["boot"].pc = "pass1"

\* init(), add = true: insert the usable descriptors, remove the low
\* region, publish.
InitPass1(e820) ==
    /\ AtPass1
    /\ LET r == init_pass(boot.free_memory, e820, TRUE)
       IN  IF r.panic
           THEN /\ status' = "panic"
                /\ UNCHANGED <<mem, ctx, boot>>
           ELSE /\ mem' = Some(r.rs)
                /\ boot' = [free_memory |-> r.rs, e820 |-> e820]
                /\ ctx' = [ctx EXCEPT !["boot"].pc = "pass2"]
                /\ UNCHANGED status
    /\ UNCHANGED lock
    /\ UNCHANGED <<back, live>>

\* init(), add = false: remove the reserved descriptors, remove the low
\* region, publish.
InitPass2 ==
    /\ ctx["boot"].pc = "pass2"
    /\ LET r == init_pass(boot.free_memory, boot.e820, FALSE)
       IN  IF r.panic
           THEN /\ status' = "panic"
                /\ UNCHANGED <<mem, ctx, boot>>
           ELSE /\ mem' = Some(r.rs)
                /\ boot' = [boot EXCEPT !.free_memory = r.rs]
                /\ ctx' = [ctx EXCEPT !["boot"].pc = "init_ret"]
                /\ UNCHANGED status
    /\ UNCHANGED lock
    /\ UNCHANGED <<back, live>>

\* init(): E820 reports an error
InitE820Error ==
    /\ ctx["boot"].pc \in {"pass1", "pass2"}
    /\ status' = "panic"
    /\ UNCHANGED <<mem, lock, ctx, boot>>
    /\ UNCHANGED <<back, live>>

\* init() returns: the guard is dropped.
InitReturn ==
    /\ ctx["boot"].pc = "init_ret"
    /\ lock' = Unlocked
    /\ ctx' = [ctx EXCEPT !["boot"] = Idle]
    /\ boot' = NoBoot
    /\ UNCHANGED <<mem, status>>
    /\ UNCHANGED <<back, live>>

\* A context calls alloc or dealloc and starts to spin on the lock.
Call(c, op) ==
    /\ ctx[c].pc = "idle"
    /\ ctx' = [ctx EXCEPT ![c] = [Idle EXCEPT !.pc = "spin", !.op = op]]
    /\ UNCHANGED <<mem, lock, status, boot>>
    /\ UNCHANGED <<back, live>>

Acquire_WithoutLock(c) ==
    /\ ctx[c].pc = "spin"
    /\ ctx' = [ctx EXCEPT ![c].pc = "locked"]
    /\ UNCHANGED <<mem, lock, status, boot>>
    /\ UNCHANGED <<back, live>>

\* BOOT_KERN.free_memory_ref().lock() of alloc and dealloc
Acquire(c) ==
    /\ ctx[c].pc = "spin"
    /\ CanLock(lock)
    /\ lock' = c
    /\ ctx' = [ctx EXCEPT ![c].pc = "locked"]
    /\ UNCHANGED <<mem, status, boot>>
    /\ UNCHANGED <<back, live>>

\* alloc: physical_memory.as_mut() with the layout of the call
AllocEnter(c, size, align) ==
    /\ ctx[c].pc = "locked" /\ ctx[c].op = "alloc"
    /\ ctx' = [ctx EXCEPT ![c].pc = "inside", ![c].a = size,
                          ![c].b = align, ![c].seen = mem]
    /\ UNCHANGED <<mem, lock, status, boot>>
    /\ UNCHANGED <<back, live>>

\* dealloc: physical_memory.as_mut() with the block of the call
DeallocEnter(c, ptr, size) ==
    /\ ctx[c].pc = "locked" /\ ctx[c].op = "dealloc"
    /\ ctx' = [ctx EXCEPT ![c].pc = "inside", ![c].a = ptr,
                          ![c].b = size, ![c].seen = mem]
    /\ UNCHANGED <<mem, lock, status, boot>>
    /\ UNCHANGED <<back, live>>

AllocExit_KeepsLock(c) ==
    /\ ctx[c].pc = "inside" /\ ctx[c].op = "alloc"
    /\ LET r == alloc(ctx[c].seen, ctx[c].a, ctx[c].b)
       IN  /\ mem' = r.mem
           /\ ctx' = [ctx EXCEPT ![c] = [Idle EXCEPT
                          !.pc = "done", !.op = "alloc",
                          !.ret = r.ret, !.got = r.got]]
    /\ UNCHANGED <<lock, status, boot>>
    /\ UNCHANGED <<back, live>>

\* alloc: allocate on the set, unwrap_or(0), drop the guard; the caller
\* is left with the returned pointer.  A panic halts with the lock held.
AllocExit(c) ==
    /\ ctx[c].pc = "inside" /\ ctx[c].op = "alloc"
    /\ LET r == alloc(ctx[c].seen, ctx[c].a, ctx[c].b)
       IN  /\ mem' = r.mem
           /\ IF r.panic
              THEN /\ status' = "panic"
                   /\ UNCHANGED <<lock, ctx>>
              ELSE /\ lock' = Unlocked
                   /\ ctx' = [ctx EXCEPT ![c] = [Idle EXCEPT
                                  !.pc = "done", !.op = "alloc",
                                  !.ret = r.ret, !.got = r.got]]
                   /\ UNCHANGED status
    /\ UNCHANGED boot
    /\ UNCHANGED <<back, live>>

\* dealloc: insert the block, expect(), drop the guard.  A panic halts
\* with the lock held.
DeallocExit(c) ==
    /\ ctx[c].pc = "inside" /\ ctx[c].op = "dealloc"
    /\ LET r == dealloc(ctx[c].seen, ctx[c].a, ctx[c].b)
       IN  /\ mem' = r.mem
           /\ IF r.panic
              THEN /\ status' = "panic"
                   /\ UNCHANGED <<lock, ctx>>
              ELSE /\ lock' = Unlocked
                   /\ ctx' = [ctx EXCEPT ![c] = [Idle EXCEPT !.pc = "done",
                                                        !.op = "dealloc"]]
                   /\ UNCHANGED status
    /\ UNCHANGED boot
    /\ UNCHANGED <<back, live>>

\* The caller has taken the result of its call.
CallReturn(c) ==
    /\ ctx[c].pc = "done"
    /\ ctx' = [ctx EXCEPT ![c] = Idle]
    /\ UNCHANGED <<mem, lock, status, boot>>
    /\ UNCHANGED <<back, live>>

\* The system has not halted.
Running == status = "ok"

NextFront ==
    \/ Running /\ InitLock
    \/ Running /\ AtPass1 /\ \E e820 \in E820Maps : InitPass1(e820)
    \/ Running /\ InitPass2
    \/ Running /\ InitE820Error
    \/ Running /\ InitReturn
    \/ Running /\ \E c \in Contexts, op \in {"alloc", "dealloc"} : Call(c, op)
    \/ Running /\ \E c \in Contexts : Acquire(c)
    \/ Running /\ \E c \in Contexts, l \in Layouts :
                      AllocEnter(c, l.size, l.align)
    \/ Running /\ \E c \in Contexts, blk \in Blocks :
                      DeallocEnter(c, blk.ptr, blk.size)
    \/ Running /\ \E c \in Contexts : AllocExit(c)
    \/ Running /\ \E c \in Contexts : DeallocExit(c)
    \/ Running /\ \E c \in Contexts : CallReturn(c)

SpecFront == Init /\ [][NextFront]_vars

------------------------------------------------------------------------------
(* One caller of the initialized allocator that keeps the blocks it is      *)
(* granted and frees only whole blocks it holds                             *)

\* init() run to its end: both passes over the same E820 map
init(e820) ==
    LET first == init_pass(new, e820, TRUE)
    IN  IF first.panic THEN first ELSE init_pass(first.rs, e820, FALSE)

Uninitialized == mem = None

\* init() returns and leaves the set it built in BOOT_KERN.free_memory
LiveInit(e820) ==
    /\ Uninitialized
    /\ LET r == init(e820)
       IN  IF r.panic
           THEN status' = "panic" /\ UNCHANGED mem
           ELSE mem' = Some(r.rs) /\ UNCHANGED status
    /\ UNCHANGED <<lock, ctx, boot, live>>
    /\ UNCHANGED back

\* alloc: a non-null pointer is a block the caller now holds
LiveAlloc(size, align) ==
    /\ ~Uninitialized
    /\ LET r == alloc(mem, size, align)
       IN  /\ mem' = r.mem
           /\ status' = IF r.panic THEN "panic" ELSE "ok"
           /\ live' = IF r.ret # 0
                      THEN Append(live, [ptr |-> r.ret, size |-> size])
                      ELSE live
    /\ UNCHANGED <<lock, ctx, boot>>
    /\ UNCHANGED back

\* dealloc of the k-th block the caller holds, with the size it was
\* allocated with
LiveFree(k) ==
    /\ k \in 1..Len(live)
    /\ LET r == dealloc(mem, live[k].ptr, live[k].size)
       IN  /\ mem' = r.mem
           /\ status' = IF r.panic THEN "panic" ELSE "ok"
    /\ live' = SubSeq(live, 1, k - 1) \o SubSeq(live, k + 1, Len(live))
    /\ UNCHANGED <<lock, ctx, boot>>
    /\ UNCHANGED back

NextLive ==
    \/ Running /\ Uninitialized /\ \E e820 \in E820Maps : LiveInit(e820)
    \/ Running /\ \E size \in 1..MaxSize, align \in {1, 2, 4} :
                      LiveAlloc(size, align)
    \/ Running /\ \E k \in 1..USIZE_MAX + 1 : LiveFree(k)

SpecLive == Init /\ [][NextLive]_vars

------------------------------------------------------------------------------
(* The restart loops of insert and remove, one scan of the entries per     *)
(* step.  last.cur is insert's local `range`, which the merges change;     *)
(* last.restarts counts the `continue 'merges` / `continue 'subtractions`  *)
(* taken so far.                                                           *)

\* More restarts than any call on CAPACITY entries takes
MaxRestarts == CAPACITY + 1

merges_pass_KeepsEntry(rs, range) ==
    LET hit == {idx \in 1..Len(rs) : touching(rs[idx], range)}
    IN  IF hit = {}
        THEN [kind |-> "break", rs |-> rs, range |-> range]
        ELSE LET idx == CHOOSE i \in hit : \A k \in hit : i <= k
             IN  [kind |-> "restart", rs |-> rs,
                  range |-> Merge(rs[idx], range)]

\* insert, lines 108-136: one scan of the `for`.  The first entry that
\* overlaps or touches is merged into range and deleted ("restart"); a scan
\* that finds none ends the loop ("break").
merges_pass(rs, range) ==
    LET hit == {idx \in 1..Len(rs) : touching(rs[idx], range)}
    IN  IF hit = {}
        THEN [kind |-> "break", rs |-> rs, range |-> range]
        ELSE LET idx == CHOOSE i \in hit : \A k \in hit : i <= k
             IN  [kind |-> "restart", rs |-> delete(rs, idx),
                  range |-> Merge(rs[idx], range)]

\* remove, lines 158-204: one scan of the `for`, from entry idx on.  A
\* truncation goes on with the next entry; a delete or a split ends the scan
\* with "restart", the split's assert with "panic"; a scan that reaches the
\* end ends the loop ("break").
RECURSIVE subtractions_pass(_, _, _)
subtractions_pass(rs, range, idx) ==
    IF idx > Len(rs)
    THEN [kind |-> "break", rs |-> rs]
    ELSE LET entry == rs[idx]
         IN  IF overlaps(entry, range) = <<>>
             THEN subtractions_pass(rs, range, idx + 1)
             ELSE IF contains(range, entry)
             THEN [kind |-> "restart", rs |-> delete(rs, idx)]
             ELSE IF range.start <= entry.start
             THEN subtractions_pass(
                      [rs EXCEPT ![idx].start = saturating_add(range.end, 1)],
                      range, idx + 1)
             ELSE IF range.end >= entry.end
             THEN subtractions_pass(
                      [rs EXCEPT ![idx].end = saturating_sub(range.start, 1)],
                      range, idx + 1)
             ELSE LET second == [rs EXCEPT ![idx].start =
                                     saturating_add(range.end, 1)]
                  IN  IF ~(Len(rs) < CAPACITY)
                      THEN [kind |-> "panic", rs |-> second]
                      ELSE [kind |-> "restart",
                            rs |-> Append(second,
                                          Range(entry.start,
                                                saturating_sub(range.start,
                                                               1)))]

\* insert is called: the assert of line 102, then the 'merges loop
LoopInsert(range) ==
    /\ pc = "idle"
    /\ last' = [NoCall EXCEPT !.op = "insert", !.range = range,
                              !.cur = range, !.prev = ranges]
    /\ IF ~(range.start <= range.end)
       THEN pc' = "done" /\ status' = "panic"
       ELSE pc' = "merges" /\ UNCHANGED status
    /\ UNCHANGED ranges
    /\ UNCHANGED <<front, live>>

\* remove is called: the assert of line 154, then the 'subtractions loop
LoopRemove(range) ==
    /\ pc = "idle"
    /\ last' = [NoCall EXCEPT !.op = "remove", !.range = range,
                              !.cur = range, !.prev = ranges]
    /\ IF ~(range.start <= range.end)
       THEN pc' = "done" /\ status' = "panic"
       ELSE pc' = "subtractions" /\ UNCHANGED status
    /\ UNCHANGED ranges
    /\ UNCHANGED <<front, live>>

\* A scan of insert that merges an entry: continue 'merges
MergesRestart ==
    /\ pc = "merges"
    /\ last.restarts < MaxRestarts
    /\ LET p == merges_pass(ranges, last.cur)
       IN  /\ p.kind = "restart"
           /\ ranges' = p.rs
           /\ last' = [last EXCEPT !.cur = p.range,
                                   !.restarts = last.restarts + 1]
    /\ UNCHANGED <<pc, status>>
    /\ UNCHANGED <<front, live>>

\* A scan of insert that merges nothing: break, the capacity assert, the
\* append
MergesBreak ==
    /\ pc = "merges"
    /\ LET p == merges_pass(ranges, last.cur)
       IN  /\ p.kind = "break"
           /\ IF ~(Len(ranges) < CAPACITY)
              THEN status' = "panic" /\ UNCHANGED ranges
              ELSE ranges' = Append(ranges, last.cur) /\ UNCHANGED status
    /\ pc' = "done"
    /\ UNCHANGED last
    /\ UNCHANGED <<front, live>>

\* A scan of remove that deletes or splits an entry:
\* continue 'subtractions
SubtractionsRestart ==
    /\ pc = "subtractions"
    /\ last.restarts < MaxRestarts
    /\ LET p == subtractions_pass(ranges, last.cur, 1)
       IN  /\ p.kind = "restart"
           /\ ranges' = p.rs
    /\ last' = [last EXCEPT !.restarts = last.restarts + 1]
    /\ UNCHANGED <<pc, status>>
    /\ UNCHANGED <<front, live>>

\* A scan of remove that reaches the end of the entries (break), or the
\* split's capacity assert
SubtractionsBreak ==
    /\ pc = "subtractions"
    /\ LET p == subtractions_pass(ranges, last.cur, 1)
       IN  /\ p.kind # "restart"
           /\ ranges' = p.rs
           /\ status' = IF p.kind = "panic" THEN "panic" ELSE "ok"
    /\ pc' = "done"
    /\ UNCHANGED last
    /\ UNCHANGED <<front, live>>

\* The call has returned; the caller is ready for its next call.
LoopReturn ==
    /\ pc = "done"
    /\ pc' = "idle"
    /\ last' = NoCall
    /\ UNCHANGED <<ranges, status>>
    /\ UNCHANGED <<front, live>>

LoopStep ==
    MergesRestart \/ MergesBreak \/ SubtractionsRestart \/ SubtractionsBreak

NextLoop ==
    \/ Running /\ \E range \in AnyRange : LoopInsert(range)
    \/ Running /\ \E range \in AnyRange : LoopRemove(range)
    \/ Running /\ MergesRestart
    \/ Running /\ MergesBreak
    \/ Running /\ SubtractionsRestart
    \/ Running /\ SubtractionsBreak
    \/ Running /\ LoopReturn

\* The code of a call runs on: a scan that can be taken is taken.
SpecLoop == Init /\ [][NextLoop]_vars /\ WF_vars(Running /\ LoopStep)

------------------------------------------------------------------------------
(* Vocabulary of the properties *)

\* The addresses the entries of rs cover
Covered(rs) ==
    {a \in U64 : \E i \in 1..Len(rs) : rs[i].start <= a /\ a <= rs[i].end}

\* The addresses of the inclusive span [s, e]
Span(s, e) == {a \in U64 : s <= a /\ a <= e}

\* x rounded up to a multiple of align
AlignUp(x, align) == ((x + align - 1) \div align) * align

\* A call has returned (the system did not halt in it)
Returned(op) == pc = "done" /\ status = "ok" /\ last.op = op

ValidAllocArgs == last.size > 0 /\ last.align \in {1, 2, 4}

AllocSucceeded == Returned("allocate") /\ last.ret # None

AllocFailed == Returned("allocate") /\ last.ret = None

\* The span [aligned_start, aligned_start + size - 1] fits in entry and is
\* addressable
Fits(entry, size, align) ==
    /\ AlignUp(entry.start, align) + size - 1 <= entry.end
    /\ AlignUp(entry.start, align) + size - 1 <= USIZE_MAX

\* The entries of rs (by index) that can satisfy the request
Candidates(rs, size, align) ==
    {i \in 1..Len(rs) : Fits(rs[i], size, align)}

\* The overlap of entry and region, with its start rounded up to align, has
\* room for size bytes
HintRoom(entry, region, size, align) ==
    /\ entry.start <= region.end /\ region.start <= entry.end
    /\ AlignUp(max(entry.start, region.start), align) + size - 1
           <= min(entry.end, region.end)

\* Some (entry, hint range) pair has a hinted match
HintedMatch(rs, size, align, regions) ==
    /\ regions # None
    /\ \E i \in 1..Len(rs), j \in 1..Len(regions[1]) :
           HintRoom(rs[i], regions[1][j], size, align)

\* The entry of the set before the call that holds the returned address
ChosenIdx ==
    CHOOSE i \in 1..Len(last.prev) :
        last.prev[i].start <= last.ret[1] /\ last.ret[1] <= last.prev[i].end

PadOf(entry) == AlignUp(entry.start, last.align) - entry.start

SpanOf(entry) == entry.end - entry.start

\* A successful allocate served by the fallback pass
FallbackSucceeded ==
    /\ AllocSucceeded
    /\ ~HintedMatch(last.prev, last.size, last.align, last.regions)

------------------------------------------------------------------------------
(* Properties *)

\* C1: after any sequence of insert, remove and allocate calls from the empty
\* set, every live entry has start <= end, and no two live entries overlap or
\* touch (a.end + 1 == b.start).
EntriesDisjointNonTouching ==
    /\ \A i \in 1..Len(ranges) : ranges[i].start <= ranges[i].end
    /\ \A i, j \in 1..Len(ranges) :
           i # j => \/ ranges[i].end + 1 < ranges[j].start
                    \/ ranges[j].end + 1 < ranges[i].start

\* C1 witness: an insert of a range that touches the end of an entry has
\* returned, leaving at least two entries.
TouchingInsertReturned ==
    /\ Returned("insert")
    /\ Len(ranges) >= 2
    /\ \E i \in 1..Len(last.prev) : last.prev[i].end + 1 = last.range.start

\* C2: a successful allocate returns an address A with A % align == 0, the
\* span [A, A+size-1] was inside one free entry before the call, and none of
\* its addresses is covered after the call.
AllocationCorrect ==
    AllocSucceeded =>
        LET A == last.ret[1]
        IN  /\ A % last.align = 0
            /\ \E i \in 1..Len(last.prev) :
                   /\ last.prev[i].start <= A
                   /\ A + last.size - 1 <= last.prev[i].end
            /\ Span(A, A + last.size - 1) \cap Covered(ranges) = {}

\* C2 witness: a successful allocate with an alignment of at least 2 whose
\* address lies above the start of the entry it was taken from.
AlignedAllocationAboveEntryStart ==
    /\ AllocSucceeded
    /\ last.align >= 2
    /\ \E i \in 1..Len(last.prev) :
           /\ last.prev[i].start < last.ret[1]
           /\ last.ret[1] <= last.prev[i].end

\* C3 (as claimed): a successful allocate removes exactly [A, A+size-1] from
\* the free addresses; every other free address, the alignment padding below
\* A included, stays free.
AllocationRemovesExactlySpan ==
    AllocSucceeded =>
        Covered(ranges) =
            Covered(last.prev) \ Span(last.ret[1], last.ret[1] + last.size - 1)

\* C4: an allocate that returns failure leaves the set unchanged: the same
\* entries in the same storage order, the same count.
FailedAllocationLeavesSet ==
    AllocFailed => ranges = last.prev

\* C4 witness: an allocate with valid arguments failed on a set of at least
\* two entries.
ValidAllocationFailed ==
    AllocFailed /\ ValidAllocArgs /\ Len(last.prev) >= 2

\* C5 (as claimed): allocate(size, align, None) with size > 0 and align a
\* power of two succeeds whenever some free entry holds an aligned,
\* representable span of size bytes, whatever other entries are in the set.
AllocationSucceedsWhenAnEntryFits ==
    ( /\ pc = "done" /\ last.op = "allocate"
      /\ ValidAllocArgs
      /\ last.regions = None
      /\ Candidates(last.prev, last.size, last.align) # {} )
    => (status = "ok" /\ last.ret # None)

\* C6 (as claimed): in the fallback pass allocate takes the address from the
\* candidate entry with the smallest span entry.end - entry.start.
FallbackTakesSmallestEntry ==
    FallbackSucceeded =>
        \A c \in Candidates(last.prev, last.size, last.align) :
            SpanOf(last.prev[ChosenIdx]) <= SpanOf(last.prev[c])

\* C6 (amended): in the fallback pass allocate takes the aligned start of a
\* candidate entry whose padded allocation span, size - 1 plus the alignment
\* padding, is the smallest, that is a candidate needing the least padding.
FallbackTakesLeastPadding ==
    FallbackSucceeded =>
        /\ ChosenIdx \in Candidates(last.prev, last.size, last.align)
        /\ last.ret[1] = AlignUp(last.prev[ChosenIdx].start, last.align)
        /\ \A c \in Candidates(last.prev, last.size, last.align) :
               PadOf(last.prev[ChosenIdx]) <= PadOf(last.prev[c])

\* C6 witness: a fallback allocation taken from a later entry that displaced
\* an earlier candidate needing more padding.
FallbackDisplacedPaddedCandidate ==
    /\ FallbackSucceeded
    /\ \E c \in Candidates(last.prev, last.size, last.align) :
           /\ c < ChosenIdx
           /\ PadOf(last.prev[c]) > PadOf(last.prev[ChosenIdx])

\* C7 (as claimed): in the fallback pass, among candidate entries of the same
\* span entry.end - entry.start, allocate takes the first in storage order.
FallbackTieOnEntrySpanKeepsFirst ==
    FallbackSucceeded =>
        \A c \in Candidates(last.prev, last.size, last.align) :
            SpanOf(last.prev[c]) = SpanOf(last.prev[ChosenIdx])
                => ChosenIdx <= c

\* C7 (amended): in the fallback pass, among candidate entries of the same
\* padded allocation span (the same alignment padding), allocate takes the
\* first in storage order.
FallbackTieOnPaddingKeepsFirst ==
    FallbackSucceeded =>
        \A c \in Candidates(last.prev, last.size, last.align) :
            PadOf(last.prev[c]) = PadOf(last.prev[ChosenIdx])
                => ChosenIdx <= c

\* C7 witness: a fallback allocation taken from the first of two candidates
\* that need the same padding.
FallbackTieBroken ==
    /\ FallbackSucceeded
    /\ \E c \in Candidates(last.prev, last.size, last.align) :
           /\ c > ChosenIdx
           /\ PadOf(last.prev[c]) = PadOf(last.prev[ChosenIdx])

\* C8 (as claimed): when a hint range overlaps a free entry and the overlap,
\* its start rounded up to align, has (addressable) room for size bytes,
\* allocate returns an address inside such a hinted overlap, in either
\* storage order of the entries.
HintedOverlapTakesPrecedence ==
    ( /\ Returned("allocate")
      /\ ValidAllocArgs
      /\ last.regions # None
      /\ \E i \in 1..Len(last.prev), j \in 1..Len(last.regions[1]) :
             /\ HintRoom(last.prev[i], last.regions[1][j],
                         last.size, last.align)
             /\ AlignUp(max(last.prev[i].start, last.regions[1][j].start),
                        last.align) + last.size - 1 <= USIZE_MAX )
    => /\ last.ret # None
       /\ \E i \in 1..Len(last.prev), j \in 1..Len(last.regions[1]) :
              /\ max(last.prev[i].start, last.regions[1][j].start)
                     <= last.ret[1]
              /\ last.ret[1] + last.size - 1
                     <= min(last.prev[i].end, last.regions[1][j].end)

\* C9 (as claimed): the hint only biases placement.  With no hinted match,
\* allocate(size, align, Some(hint)) returns the same result and leaves the
\* same set as allocate(size, align, None); and a call that succeeds without
\* a hint does not fail with one.
HintNeverRejects ==
    (Returned("allocate") /\ last.regions # None) =>
        LET plain == allocate(last.prev, last.size, last.align, None)
        IN  /\ ~HintedMatch(last.prev, last.size, last.align, last.regions)
                => (last.ret = plain.ret /\ ranges = plain.rs)
            /\ plain.ret # None => last.ret # None

\* C10: after insert(range) with start <= end returns, the addresses covered
\* are those covered before together with [range.start, range.end].
InsertCoversUnion ==
    Returned("insert") =>
        Covered(ranges) =
            Covered(last.prev) \cup Span(last.range.start, last.range.end)

\* C10 witness: an insert that bridged two entries (transitive merge) has
\* returned.
InsertBridgedTwoEntries ==
    /\ Returned("insert")
    /\ Len(last.prev) >= 2
    /\ Len(ranges) = Len(last.prev) - 1

\* A call has run, to its return or to a panic
Called(op) == pc = "done" /\ last.op = op

ValidRangeArg == last.range.start <= last.range.end

\* Some entry before the call strictly contains the range removed
StrictlyInterior ==
    \E i \in 1..Len(last.prev) :
        /\ last.prev[i].start < last.range.start
        /\ last.range.end < last.prev[i].end

\* C11: after remove(range) with start <= end returns, the addresses covered
\* are those covered before minus [range.start, range.end]; an entry inside
\* the range is gone, an entry overlapped on one edge is truncated, an entry
\* strictly containing the range leaves its left and right remainders, and
\* entries not overlapping the range are unchanged.
RemoveCoversDifference ==
    Returned("remove") =>
        /\ Covered(ranges) =
               Covered(last.prev) \ Span(last.range.start, last.range.end)
        /\ \A i \in 1..Len(last.prev) :
               LET e == last.prev[i]
                   r == last.range
                   now == {ranges[k] : k \in 1..Len(ranges)}
               IN  /\ (e.end < r.start \/ r.end < e.start) => e \in now
                   /\ (e.start < r.start /\ r.start <= e.end)
                          => Range(e.start, r.start - 1) \in now
                   /\ (e.start <= r.end /\ r.end < e.end)
                          => Range(r.end + 1, e.end) \in now

\* C11 witness: a remove of a range strictly inside an entry has returned and
\* left one entry more.
RemoveSplitAnEntry ==
    /\ Returned("remove")
    /\ StrictlyInterior
    /\ Len(ranges) = Len(last.prev) + 1

\* C12: the number of live entries never exceeds the capacity of the array;
\* insert of a range that overlaps or touches no entry succeeds, adding one
\* entry, whenever fewer than CAPACITY entries are live, and is a fatal abort
\* when CAPACITY entries are live.
CapacityRespected ==
    /\ Len(ranges) <= CAPACITY
    /\ ( /\ Called("insert") /\ ValidRangeArg
         /\ \A i \in 1..Len(last.prev) :
                \/ last.prev[i].end + 1 < last.range.start
                \/ last.range.end + 1 < last.prev[i].start )
       => IF Len(last.prev) < CAPACITY
          THEN status = "ok" /\ ranges = Append(last.prev, last.range)
          ELSE status = "panic"

\* C12 witness: an insert of a range apart from every entry aborted on a full
\* set.
InsertAbortedOnFullSet ==
    /\ Called("insert") /\ ValidRangeArg
    /\ status = "panic"
    /\ Len(last.prev) = CAPACITY

\* C13 (as claimed): allocate with size == 0 is a fatal abort, not a failure
\* returned to the caller.
ZeroSizeAllocationAborts ==
    (Called("allocate") /\ last.size = 0) => status = "panic"

\* C13 (amended): allocate with size == 0 returns failure (None) to the
\* caller, leaves the set unchanged and does not abort.
ZeroSizeAllocationFails ==
    (Called("allocate") /\ last.size = 0)
        => (status = "ok" /\ last.ret = None /\ ranges = last.prev)

\* C13 witness: allocate with size 0 and a valid alignment has run on a set
\* with an entry.
ZeroSizeAllocationCalled ==
    /\ Called("allocate") /\ last.size = 0 /\ last.align = 1
    /\ Len(last.prev) >= 1

\* C14 (as claimed): allocate with an align that is no power of two (0
\* included) is a fatal abort, not a failure returned to the caller.
BadAlignmentAborts ==
    (Called("allocate") /\ last.align \notin {1, 2, 4}) => status = "panic"

\* C14 (amended): allocate with an align that is no power of two (0
\* included) returns failure (None) to the caller, leaves the set unchanged
\* and does not abort.
BadAlignmentFails ==
    (Called("allocate") /\ last.align \notin {1, 2, 4})
        => (status = "ok" /\ last.ret = None /\ ranges = last.prev)

\* C14 witness: allocate with a nonzero size and alignment 3 has run on a set
\* with an entry that could hold the request.
BadAlignmentCalled ==
    /\ Called("allocate") /\ last.size = 1 /\ last.align = 3
    /\ Len(last.prev) >= 1

\* C15: insert and remove called with a range whose start > end abort
\* before changing any entry or the count.
InvalidRangeAborts ==
    ((Called("insert") \/ Called("remove")) /\ ~ValidRangeArg)
        => (status = "panic" /\ ranges = last.prev)

\* C15 witness: a remove with start > end was called on a set with an entry
\* that reaches over both bounds of the range.
InvalidRemoveCalled ==
    /\ Called("remove") /\ ~ValidRangeArg
    /\ \E i \in 1..Len(last.prev) :
           /\ last.prev[i].start < last.range.end
           /\ last.range.start < last.prev[i].end

\* C16: remove of a range strictly interior to an entry adds one entry, and
\* aborts when CAPACITY entries are live; a remove that only deletes or
\* truncates entries never aborts.
RemoveSplitCapacity ==
    (Called("remove") /\ ValidRangeArg) =>
        IF StrictlyInterior
        THEN IF Len(last.prev) < CAPACITY
             THEN status = "ok" /\ Len(ranges) = Len(last.prev) + 1
             ELSE status = "panic"
        ELSE status = "ok" /\ Len(ranges) <= Len(last.prev)

\* C16 witness: a remove of a range strictly inside an entry aborted on a
\* full set.
RemoveSplitAbortedOnFullSet ==
    /\ Called("remove") /\ ValidRangeArg /\ StrictlyInterior
    /\ status = "panic"
    /\ Len(last.prev) = CAPACITY

------------------------------------------------------------------------------
(* Properties of the physical memory manager *)

\* Context c is about to run the body of op on the locked set
Inside(c, op) == ctx[c].pc = "inside" /\ ctx[c].op = op

\* The step that runs the body of op for c: it returns or halts the system
Runs(c, op) ==
    /\ Inside(c, op)
    /\ ctx'[c] # ctx[c] \/ status' # status

\* Context c holds the free_memory guard
HoldsGuard(c) ==
    \/ ctx[c].pc \in {"locked", "inside"}
    \/ c = "boot" /\ ctx[c].pc \in {"pass1", "pass2", "init_ret"}

\* The addresses the descriptors of the given kind claim; descriptors of
\* size 0 claim nothing
Claimed(e820, usable) ==
    {a \in U64 : \E k \in 1..Len(e820) :
        /\ (e820[k].typ = 1) = usable
        /\ e820[k].size > 0
        /\ e820[k].base <= a
        /\ a <= e820[k].base + e820[k].size - 1}

\* C17, as the claim states it: an alloc on the allocator before init()
\* has published a set halts the system.
UninitializedAllocateHalts ==
    [][\A c \in Contexts :
          Runs(c, "alloc") /\ mem = None => status' = "panic"]_vars

\* C18: dealloc(ptr, size) runs under the lock; on an initialized allocator
\* whose block end ptr + size - 1 is representable it adds exactly the
\* addresses [ptr, ptr + size - 1] to the free set (or halts in insert's
\* capacity assert with the set as it was); when the allocator is not
\* initialized or the block end is not representable it halts and leaves
\* the set unchanged.
FreeInsertsExactlyTheBlock ==
    [][\A c \in Contexts :
          Runs(c, "dealloc") =>
              LET ptr == ctx[c].a
                  size == ctx[c].b
              IN  /\ lock = c
                  /\ IF mem = None \/ size = 0 \/ ptr + size - 1 > U64_MAX
                     THEN status' = "panic" /\ mem' = mem
                     ELSE \/ /\ status' = "ok"
                             /\ ctx'[c].pc = "done"
                             /\ mem' # None
                             /\ Covered(mem'[1]) =
                                    Covered(mem[1]) \cup
                                    Span(ptr, ptr + size - 1)
                          \/ /\ status' = "panic"
                             /\ Len(mem[1]) = CAPACITY
                             /\ mem' = mem]_vars

\* A dealloc has returned and address 0, which neither init() nor alloc
\* ever leaves in the set, is free.
FreeReturnedLowBlock ==
    \E c \in Contexts :
        /\ ctx[c].pc = "done" /\ ctx[c].op = "dealloc"
        /\ status = "ok"
        /\ mem # None
        /\ 0 \in Covered(mem[1])

\* C19: when init() has run both passes, the published free set covers
\* exactly the addresses above the low region that a usable descriptor
\* claims and no other descriptor claims; the result does not depend on
\* the order of the descriptors.
InitPublishesUsableMemory ==
    ctx["boot"].pc = "init_ret" =>
        /\ mem # None
        /\ mem[1] = boot.free_memory
        /\ Covered(mem[1]) =
               {a \in Claimed(boot.e820, TRUE) \ Claimed(boot.e820, FALSE) :
                   a > LOW_MEM_END}

\* init() has published a non-empty set from a map whose first descriptor
\* is reserved and overlaps, above the low region, a later usable one.
InitResolvedOverlap ==
    /\ ctx["boot"].pc = "init_ret"
    /\ Len(boot.e820) > 1
    /\ boot.e820[1].typ # 1
    /\ \E a \in Claimed(boot.e820, TRUE) \cap Claimed(boot.e820, FALSE) :
           a > LOW_MEM_END
    /\ mem # None
    /\ mem[1] # <<>>

\* C20: at most one context holds the guard, and it is the lock's holder;
\* the shared set changes only in a step of the holder, to the result of
\* the holder's whole operation on the set as it is; an alloc grants only
\* addresses that are free when it runs and not free afterwards.
CallsAreSerialized ==
    [][/\ \A c, d \in Contexts :
              (HoldsGuard(c) /\ HoldsGuard(d))' => c = d
       /\ \A c \in Contexts : HoldsGuard(c)' => lock' = c
       /\ mem' # mem =>
              \E c \in Contexts :
                  /\ lock = c
                  /\ \/ Runs(c, "alloc") /\
                            mem' = alloc(mem, ctx[c].a, ctx[c].b).mem
                     \/ Runs(c, "dealloc") /\
                            mem' = dealloc(mem, ctx[c].a, ctx[c].b).mem
                     \/ c = "boot" /\ ctx[c].pc \in {"pass1", "pass2"} /\
                            mem' = Some(boot'.free_memory)
       /\ \A c \in Contexts :
              Runs(c, "alloc") /\ ctx'[c].got # None =>
                  LET granted == Span(ctx'[c].ret,
                                      ctx'[c].ret + ctx[c].a - 1)
                  IN  /\ mem # None
                      /\ mem' # None
                      /\ granted \subseteq Covered(mem[1])
                      /\ granted \cap Covered(mem'[1]) = {}]_vars

\* One context spins on the lock while the other has been granted a block
\* and the set is not empty.
AllocGrantedWhileOtherSpins ==
    \E c, d \in Contexts :
        /\ c # d
        /\ ctx[c].pc = "done" /\ ctx[c].op = "alloc" /\ ctx[c].got # None
        /\ ctx[d].pc = "spin"

------------------------------------------------------------------------------
(* Properties of sequences of calls on one RangeSet *)

\* The entries of rs as a set of (start, end) pairs
EntrySet(rs) == {rs[i] : i \in 1..Len(rs)}

\* The range of the last call overlaps no entry of the set before it
RangeOverlapsNothing ==
    \A i \in 1..Len(last.prev) :
        \/ last.prev[i].end < last.range.start
        \/ last.range.end < last.prev[i].start

\* C21: insert(range) of a range that overlaps no entry, followed by
\* remove(range), returns and leaves the same entries (as a set of pairs)
\* as before the insert.
InsertRemoveRoundTrip ==
    (pc = "removed" /\ RangeOverlapsNothing) =>
        /\ status = "ok"
        /\ EntrySet(ranges) = EntrySet(last.prev)

\* The round trip ran on a range that touched an entry on each side: the
\* insert merged the three into one entry and the remove split it again.
RoundTripThroughBridge ==
    /\ pc = "removed" /\ RangeOverlapsNothing
    /\ Len(last.prev) = 2
    /\ Len(last.mid) = 1
    /\ Len(ranges) = 2

\* C22: a second insert(range) after an insert(range) that returned also
\* returns and leaves the entries and their storage order as they were.
InsertIsIdempotent ==
    pc = "again" => (status = "ok" /\ ranges = last.mid)

\* The repeated insert ran on a full set whose last entry absorbed an
\* earlier entry in the first insert.
InsertRepeatedOnMergedEntry ==
    /\ pc = "again"
    /\ Len(last.mid) = CAPACITY
    /\ Len(last.prev) = CAPACITY
    /\ last.mid[Len(last.mid)] # last.range

------------------------------------------------------------------------------
(* Properties of allocate's address arithmetic and of the hinted pass *)

\* Some aligned address A of entry leaves [A, A + size - 1] inside the
\* entry and inside the addressable width
Placeable(entry, size, align) ==
    \E A \in Span(entry.start, entry.end) :
        /\ A % align = 0
        /\ A + size - 1 <= entry.end
        /\ A + size - 1 <= USIZE_MAX

\* C23: allocate never wraps.  A returned address A has A + size - 1 within
\* the addressable width and [A, A + size - 1] inside one entry of the set
\* before the call, and what the call removes lies in that entry at or
\* below A + size - 1.  A request no entry can place within the
\* addressable width returns failure with the set unchanged.  The only
\* abort is the capacity assert of a hinted allocation that splits an entry
\* of a full set.
AllocationNeverWraps ==
    (Called("allocate") /\ ValidAllocArgs) =>
        /\ status = "panic" =>
               (last.regions # None /\ Len(last.prev) = CAPACITY)
        /\ (status = "ok" /\ last.ret # None) =>
               LET A == last.ret[1]
               IN  /\ A + last.size - 1 <= USIZE_MAX
                   /\ \E i \in 1..Len(last.prev) :
                          /\ last.prev[i].start <= A
                          /\ A + last.size - 1 <= last.prev[i].end
                          /\ Covered(last.prev) \ Covered(ranges) \subseteq
                                 Span(last.prev[i].start, A + last.size - 1)
                   /\ Covered(ranges) \subseteq Covered(last.prev)
        /\ (\A i \in 1..Len(last.prev) :
                ~Placeable(last.prev[i], last.size, last.align)) =>
               (status = "ok" /\ last.ret = None /\ ranges = last.prev)

\* An allocate returned failure on a set with an entry for which
\* start + (size - 1) + padding is not representable.
AllocationOverflowReturnedFailure ==
    /\ AllocFailed /\ ValidAllocArgs
    /\ \E i \in 1..Len(last.prev) :
           AlignUp(last.prev[i].start, last.align) + last.size - 1 > U64_MAX

\* The first (entry, hint range) pair, entries in storage order and hint
\* ranges in the hint's storage order within each entry, whose overlap has
\* room for the request
FirstHintedPair(rs, size, align, regions) ==
    CHOOSE p \in (1..Len(rs)) \X (1..Len(regions)) :
        /\ HintRoom(rs[p[1]], regions[p[2]], size, align)
        /\ \A q \in (1..Len(rs)) \X (1..Len(regions)) :
               HintRoom(rs[q[1]], regions[q[2]], size, align) =>
                   (p[1] < q[1] \/ (p[1] = q[1] /\ p[2] <= q[2]))

\* C24, as the claim states it: with a hint and at least one pair whose
\* overlap has room, allocate returns the aligned start of the overlap of
\* the first such pair.
HintedFirstPairWins ==
    ( /\ Returned("allocate")
      /\ ValidAllocArgs
      /\ HintedMatch(last.prev, last.size, last.align, last.regions) )
    => LET p == FirstHintedPair(last.prev, last.size, last.align,
                                last.regions[1])
       IN  /\ last.ret # None
           /\ last.ret[1] =
                  AlignUp(max(last.prev[p[1]].start,
                              last.regions[1][p[2]].start), last.align)

------------------------------------------------------------------------------
(* Properties of the storage order, of allocate followed by free, and of   *)
(* the entry count under allocate                                          *)

\* entry and range share no address
Apart(entry, range) == entry.end < range.start \/ range.end < entry.start

AllocateFreeRoundTrip ==
    pc = "freed" =>
        (status = "ok" /\ Covered(ranges) = Covered(last.prev))

\* C30: allocate with no region hint returns without an abort and never
\* leaves more entries than there were, whatever the arguments and however
\* full the set; so the front-end alloc never panics on an initialized
\* allocator.
UnhintedAllocationNeverGrows ==
    (Called("allocate") /\ last.regions = None) =>
        /\ status = "ok"
        /\ Len(ranges) <= Len(last.prev)
        /\ ~alloc(Some(last.prev), last.size, last.align).panic

\* An unhinted allocate on a full set returned an address above the start
\* of the entry it was taken from (the entry had to be padded).
UnhintedPaddedAllocationOnFullSet ==
    /\ AllocSucceeded
    /\ last.regions = None
    /\ Len(last.prev) = CAPACITY
    /\ \E i \in 1..Len(last.prev) :
           /\ last.prev[i].start < last.ret[1]
           /\ last.ret[1] < last.prev[i].end

------------------------------------------------------------------------------
(* Progress of the contexts sharing the allocator *)

\* C25: while the system has not halted, a held lock is held by a context
\* that is inside init(), alloc or dealloc and whose next step does not
\* wait for the lock; a context that is outside these calls holds no
\* lock; so the contexts never all spin on a lock nobody releases.
LockIsAlwaysReleased ==
    status = "ok" =>
        /\ lock # Unlocked => \E c \in Contexts : lock = c /\ HoldsGuard(c)
        /\ \A c \in Contexts : ctx[c].pc \in {"idle", "spin", "done"} => lock # c
        /\ ~(/\ lock # Unlocked
             /\ \A c \in Contexts : ctx[c].pc \in {"spin", "start"})

\* After init(), one context spins on the lock while the other runs
\* dealloc under it.
ContextSpinsWhileOtherFrees ==
    \E c, d \in Contexts :
        /\ c # d
        /\ status = "ok"
        /\ mem # None
        /\ ctx[c].pc = "spin"
        /\ Inside(d, "dealloc")
        /\ lock = d

------------------------------------------------------------------------------
(* Properties of the blocks a caller holds *)

\* The addresses of block b
BlockSpan(b) == Span(b.ptr, b.ptr + b.size - 1)

\* C28: over any sequence of alloc calls and of dealloc calls that each
\* return one whole block the caller holds, the blocks held are pairwise
\* disjoint and share no address with a free entry.
LiveBlocksAreDisjoint ==
    /\ \A j, k \in 1..Len(live) :
           j # k => BlockSpan(live[j]) \cap BlockSpan(live[k]) = {}
    /\ mem # None =>
           \A k \in 1..Len(live) :
               BlockSpan(live[k]) \cap Covered(mem[1]) = {}

\* The caller holds two blocks, has freed the one granted first, and free
\* memory is left.
TwoBlocksHeldAfterFree ==
    /\ Len(live) = 2
    /\ live[2].ptr < live[1].ptr
    /\ mem # None
    /\ mem[1] # <<>>

------------------------------------------------------------------------------
(* Termination of the restart loops *)

InLoop == pc \in {"merges", "subtractions"}

\* What the loops keep true: insert has deleted one entry per restart, so
\* it restarts at most once per entry live at the start of the call; remove
\* restarts at most once per such entry (deletes), or once for the one
\* split; and a call that has ended left what the whole operation leaves.
RestartsBounded ==
    /\ (InLoop \/ pc = "done") =>
           /\ last.op = "insert" =>
                  /\ last.restarts <= Len(last.prev)
                  /\ pc = "merges" =>
                         Len(ranges) = Len(last.prev) - last.restarts
           /\ last.op = "remove" =>
                  last.restarts <= max(Len(last.prev), 1)
    /\ pc = "done" =>
           LET whole == IF last.op = "insert"
                        THEN insert(last.prev, last.range)
                        ELSE remove(last.prev, last.range)
           IN  /\ ranges = whole.rs
               /\ (status = "panic") = whole.panic

\* C26: the restart loops terminate for every input: insert restarts its
\* scan at most once per entry live at the start of the call, each restart
\* deleting one entry, remove restarts finitely often, and every call of
\* either ends, in a return or in an abort.
RestartLoopsTerminate ==
    /\ []RestartsBounded
    /\ InLoop ~> pc = "done"

\* An insert ended after one restart per entry of a full set.
InsertRestartedForEveryEntry ==
    /\ pc = "done" /\ last.op = "insert"
    /\ status = "ok"
    /\ Len(last.prev) = CAPACITY
    /\ last.restarts = CAPACITY

------------------------------------------------------------------------------
(* Insert into a full set *)

\* Some entry live before the call overlaps the inserted range or is
\* adjacent to it.
RangeMeetsAnEntry ==
    \E k \in 1..Len(last.prev) :
        /\ last.prev[k].start <= last.range.end + 1
        /\ last.range.start <= last.prev[k].end + 1

\* C31: an insert of a valid range that overlaps or touches at least one
\* entry does not abort, whatever the number of live entries, and leaves
\* at most as many entries as it found.
MergingInsertNeverAborts ==
    (Called("insert") /\ ValidRangeArg /\ RangeMeetsAnEntry) =>
        /\ status = "ok"
        /\ Len(ranges) <= Len(last.prev)

\* An insert into a full set returned after merging with an entry.
MergingInsertOnFullSet ==
    /\ Called("insert") /\ ValidRangeArg /\ RangeMeetsAnEntry
    /\ Len(last.prev) = CAPACITY
    /\ status = "ok"

------------------------------------------------------------------------------
(* delete on its own: the private helper applied to every reachable set *)

Indices == 0..CAPACITY + 1

Delete(idx) ==
    /\ LET r == delete_call(ranges, idx)
       IN  /\ ranges' = r.rs
           /\ status' = IF r.panic THEN "panic" ELSE "ok"
    /\ pc' = "done"
    /\ last' = [NoCall EXCEPT !.op = "delete", !.idx = idx, !.prev = ranges]
    /\ UNCHANGED <<front, live>>

NextDelete ==
    \/ Ready /\ \E range \in AnyRange : Insert(range)
    \/ Ready /\ \E range \in AnyRange : Remove(range)
    \/ Ready /\ \E idx \in Indices : Delete(idx)
    \/ Return

SpecDelete == Init /\ [][NextDelete]_vars

------------------------------------------------------------------------------
(* The low region stays out of the allocator *)

\* C32: once init() has published the set, and with every free returning a
\* block that allocate granted, no free entry covers an address at or
\* below the end of the low region; so no block granted lies there, and an
\* alloc that finds a block never returns 0, the value that reports
\* failure.
LowMemoryNeverFree ==
    mem # None =>
        /\ \A a \in Covered(mem[1]) : a > LOW_MEM_END
        /\ \A k \in 1..Len(live) : live[k].ptr > LOW_MEM_END
        /\ \A size \in 1..MaxSize, align \in {1, 2, 4} :
               LET r == alloc(mem, size, align)
               IN  r.got # None =>
                       /\ r.got[1] > LOW_MEM_END
                       /\ r.ret = r.got[1]
                       /\ r.ret # 0

\* The caller holds the lowest block the allocator can grant, and memory
\* is still free.
LowestBlockGranted ==
    /\ mem # None /\ status = "ok"
    /\ \E k \in 1..Len(live) : live[k].ptr = LOW_MEM_END + 1
    /\ mem[1] # <<>>

------------------------------------------------------------------------------
(* init() against the other contexts *)

\* init() has taken the guard and has not returned
InInit == ctx["boot"].pc \in {"pass1", "pass2", "init_ret"}

\* C33: init() holds the allocator lock from before its first pass until
\* it returns, after both passes and the removal of the low region.  No
\* other context is inside alloc or dealloc meanwhile, and a context that
\* got inside before init() returned saw the uninitialized allocator: the
\* set published after the first pass is seen by nobody.
InitIsAtomic ==
    /\ InInit =>
           /\ lock = "boot"
           /\ \A c \in Contexts \ {"boot"} : ~HoldsGuard(c)
    /\ \A c \in Contexts :
           (ctx[c].pc = "inside" /\ ctx[c].seen # None) =>
               ctx["boot"].pc \notin {"start", "pass1", "pass2", "init_ret"}

\* The set published after the first pass still holds reserved memory
\* while another context waits for the lock.
ReservedMemoryPublishedWhileOtherSpins ==
    /\ ctx["boot"].pc = "pass2"
    /\ mem # None
    /\ Covered(mem[1]) \cap Claimed(boot.e820, FALSE) # {}
    /\ ctx["kern"].pc = "spin"
    /\ status = "ok"

====
